---- MODULE Spec2Model ----
(***************************************************************************)
(* Model of src/main.py: the crop stage (preprocess_image_from_array),     *)
(* the text-to-record stage (parse_text) and the batch driver              *)
(* (extract_data).                                                         *)
(*                                                                         *)
(* Text is modelled at character level: a string is a sequence of          *)
(* one-character strings.  Characters outside ASCII are named values.      *)
(* Pixels are not modelled: an image is its shape.                         *)
(***************************************************************************)
EXTENDS Integers, Sequences, FiniteSets, TLC

VARIABLES
    pc,               \* position in the running function
    raw_dir,          \* RAW_IMAGES_FOLDER: file names, in os.listdir order
    images_dir,       \* IMAGES_FOLDER: file names, in os.listdir order
    data_dir,         \* DATA_FOLDER: the files written, name and content
    raw_image_files,  \* extract_data: listed raw image files
    original_images,  \* extract_data: dict filename -> image, in insertion order
    processed_files,  \* extract_data: listed files of IMAGES_FOLDER
    idx,              \* index of the running for-loop
    removals,         \* os.remove calls made on raw files so far, and whether
                      \* each removed its file
    results,          \* extract_data: results
    strategy_info,    \* extract_data: strategy_info
    first_image,      \* extract_data: first_image
    outcomes,         \* per image taken by the main loop: what became of it
    dialog,           \* last messagebox shown
    image,            \* argument of preprocess_image_from_array
    cropped,          \* preprocess_image_from_array: cropped (region taken)
    processed,        \* result of preprocess_image_from_array
    ocr_text,         \* argument of parse_text
    candidate_line,   \* parse_text: candidate_line
    parsed            \* result of parse_text

vars == <<pc, raw_dir, images_dir, data_dir, raw_image_files, original_images,
          processed_files, idx, removals, results, strategy_info, first_image,
          outcomes, dialog, image, cropped, processed, ocr_text,
          candidate_line, parsed>>

(***************************************************************************)
(* Bounds of the model.                                                    *)
(***************************************************************************)
\* Lines of an OCR text in the parse_text specification.
MaxLines == 3
\* Length of the varied numeric tokens in the field specification.
MaxTokLen == 2
\* Entries of RAW_IMAGES_FOLDER in the batch specification.
MaxFiles == 3
\* Image sizes range this far around the crop limits.
DimSlack == 4

(***************************************************************************)
(* Characters.                                                             *)
(***************************************************************************)
\* U+2014, U+2013, U+2018, U+2019, U+00A9
EmDash == "U+2014"
EnDash == "U+2013"
LQuote == "U+2018"
RQuote == "U+2019"
Copyright == "U+00A9"

Digit == {"0", "1", "2", "3", "4", "5", "6", "7", "8", "9"}
LowerSeq == <<"a", "b", "c", "d", "e", "f", "g", "h", "i", "j", "k", "l", "m",
              "n", "o", "p", "q", "r", "s", "t", "u", "v", "w", "x", "y", "z">>
UpperSeq == <<"A", "B", "C", "D", "E", "F", "G", "H", "I", "J", "K", "L", "M",
              "N", "O", "P", "Q", "R", "S", "T", "U", "V", "W", "X", "Y", "Z">>
Lower == {LowerSeq[i] : i \in 1..26}
Upper == {UpperSeq[i] : i \in 1..26}
\* \s and the characters str.strip() removes
Space == {" ", "\t", "\n"}

ToUpper(c) == IF c \in Lower THEN UpperSeq[CHOOSE i \in 1..26 : LowerSeq[i] = c] ELSE c
ToLower(c) == IF c \in Upper THEN LowerSeq[CHOOSE i \in 1..26 : UpperSeq[i] = c] ELSE c
UpperStr(s) == [i \in 1..Len(s) |-> ToUpper(s[i])]
LowerStr(s) == [i \in 1..Len(s) |-> ToLower(s[i])]

DigitValue(c) == CHOOSE v \in 0..9 : <<"0", "1", "2", "3", "4", "5", "6", "7", "8", "9">>[v + 1] = c

(***************************************************************************)
(* str methods.                                                            *)
(***************************************************************************)
Min2(a, b) == IF a < b THEN a ELSE b
SetMax(S) == CHOOSE m \in S : \A n \in S : n <= m
SetMin(S) == CHOOSE m \in S : \A n \in S : m <= n

\* length of the longest run of characters of C in s from position i onward
RECURSIVE RunLen(_, _, _)
RunLen(s, i, C) ==
    IF i <= Len(s) /\ s[i] \in C THEN 1 + RunLen(s, i + 1, C) ELSE 0

\* length of the longest run of characters of C in s from position i backward
RECURSIVE RunLenBack(_, _, _)
RunLenBack(s, i, C) ==
    IF i >= 1 /\ s[i] \in C THEN 1 + RunLenBack(s, i - 1, C) ELSE 0

\* s.rstrip(C)
RStrip(s, C) == SubSeq(s, 1, Len(s) - RunLenBack(s, Len(s), C))

\* str.strip()
Strip(s) ==
    LET r == RStrip(s, Space)
    IN  SubSeq(r, RunLen(r, 1, Space) + 1, Len(r))

\* w occurs in s at position i
OccursAt(s, i, w) ==
    /\ i >= 1
    /\ i + Len(w) - 1 <= Len(s)
    /\ \A j \in 1..Len(w) : s[i + j - 1] = w[j]

\* w in s
Contains(s, w) == \E i \in 1..Len(s) : OccursAt(s, i, w)

\* str.find(w) + 1 (0: absent)
Find(s, w) ==
    IF Contains(s, w) THEN SetMin({i \in 1..Len(s) : OccursAt(s, i, w)}) ELSE 0

\* s.endswith(w)
EndsWith(s, w) == Len(w) <= Len(s) /\ OccursAt(s, Len(s) - Len(w) + 1, w)

\* s.replace(c, "") for every c of C
RemoveChars(s, C) == SelectSeq(s, LAMBDA c : c \notin C)

\* s.replace(a, b), a and b single characters
ReplaceChar(s, a, b) == [i \in 1..Len(s) |-> IF s[i] = a THEN b ELSE s[i]]

\* str.splitlines(), the line boundary being "\n"
RECURSIVE SplitLines(_)
SplitLines(s) ==
    IF s = <<>> THEN <<>>
    ELSE LET n == Find(s, <<"\n">>)
         IN  IF n = 0 THEN <<s>>
             ELSE <<SubSeq(s, 1, n - 1)>> \o SplitLines(SubSeq(s, n + 1, Len(s)))

\* "\n".join(ls)
RECURSIVE JoinLines(_)
JoinLines(ls) ==
    IF ls = <<>> THEN <<>>
    ELSE IF Len(ls) = 1 THEN ls[1]
    ELSE ls[1] \o <<"\n">> \o JoinLines(Tail(ls))

(***************************************************************************)
(* Regular expressions: a pattern is a sequence of elements, each a        *)
(* character class with a repetition, in capturing group grp (0: none).    *)
(* Matching is greedy with backtracking, as in re.                         *)
(***************************************************************************)
One(C) == <<[kind |-> "one", set |-> C, grp |-> 0]>>
Opt(C) == <<[kind |-> "opt", set |-> C, grp |-> 0]>>
Plus(C) == <<[kind |-> "plus", set |-> C, grp |-> 0]>>
Star(C) == <<[kind |-> "star", set |-> C, grp |-> 0]>>
Lit(w) == [i \in 1..Len(w) |-> [kind |-> "one", set |-> {w[i]}, grp |-> 0]]
LitNoCase(w) ==
    [i \in 1..Len(w) |-> [kind |-> "one", set |-> {ToUpper(w[i]), ToLower(w[i])}, grp |-> 0]]
Group(g, p) == [i \in 1..Len(p) |-> [p[i] EXCEPT !.grp = g]]

\* the repetition counts element e allows at position i of s
Counts(e, s, i) ==
    LET run == RunLen(s, i, e.set)
    IN  CASE e.kind = "one" -> IF run >= 1 THEN {1} ELSE {}
          [] e.kind = "opt" -> 0..Min2(1, run)
          [] e.kind = "plus" -> 1..run
          [] OTHER -> 0..run

\* every position where a match of elements lo..hi of pat, begun at position
\* i of s, can end
RECURSIVE Ends(_, _, _, _, _)
Ends(pat, lo, hi, s, i) ==
    IF lo > hi THEN {i}
    ELSE IF lo = hi THEN {i + n : n \in Counts(pat[lo], s, i)}
    ELSE LET mid == (lo + hi) \div 2
         IN  UNION {Ends(pat, mid + 1, hi, s, j) : j \in Ends(pat, lo, mid, s, i)}

\* elements k.. of pat match at position i of s
Feasible(pat, k, s, i) == Ends(pat, k, Len(pat), s, i) # {}

\* The match re finds for elements lo..hi at position i, a match of the whole
\* pattern being known to pass there: every element takes the most
\* repetitions that let the rest match (greedy, with backtracking).  The
\* result is where each element starts, then where the last one ends.
RECURSIVE Path(_, _, _, _, _)
Path(pat, lo, hi, s, i) ==
    IF lo = hi
    THEN LET ns == Counts(pat[lo], s, i)
             n == IF Cardinality(ns) = 1 THEN SetMax(ns)
                  ELSE SetMax({c \in ns : Feasible(pat, lo + 1, s, i + c)})
         IN  <<i, i + n>>
    ELSE LET mid == (lo + hi) \div 2
             left == Path(pat, lo, mid, s, i)
         IN  SubSeq(left, 1, Len(left) - 1) \o Path(pat, mid + 1, hi, s, left[Len(left)])

\* the match at position i: <<>> when there is none
MatchAt(pat, s, i) ==
    IF Feasible(pat, 1, s, i) THEN Path(pat, 1, Len(pat), s, i) ELSE <<>>

\* pattern.match(s)
ReMatch(pat, s) == MatchAt(pat, s, 1)

\* pattern.search(s): the leftmost match
ReSearch(pat, s) ==
    LET starts == {i \in 1..(Len(s) + 1) : Feasible(pat, 1, s, i)}
    IN  IF starts = {} THEN <<>> ELSE MatchAt(pat, s, SetMin(starts))

\* match.group(g)
MatchGroup(pat, s, m, g) ==
    LET ks == {k \in 1..Len(pat) : pat[k].grp = g}
    IN  SubSeq(s, m[SetMin(ks)], m[SetMax(ks) + 1] - 1)

(***************************************************************************)
(* Python values.                                                          *)
(***************************************************************************)
\* None where a string or an image is expected, and the empty dict {}
NoLine == <<>>
NoImage == <<>>
EmptyDict == <<>>

\* int(t): ok is FALSE where int raises ValueError
RECURSIVE DigitsValue(_)
DigitsValue(ds) ==
    IF ds = <<>> THEN 0
    ELSE 10 * DigitsValue(SubSeq(ds, 1, Len(ds) - 1)) + DigitValue(ds[Len(ds)])
PyInt(t) ==
    LET u == Strip(t)
        signed == u # <<>> /\ u[1] \in {"-", "+"}
        ds == IF signed THEN Tail(u) ELSE u
        ok == ds # <<>> /\ \A i \in 1..Len(ds) : ds[i] \in Digit
    IN  [ok |-> ok,
         val |-> IF ~ok THEN 0
                 ELSE IF signed /\ u[1] = "-" THEN 0 - DigitsValue(ds) ELSE DigitsValue(ds)]

\* float(t) for decimal literals without exponent: the value is
\* (neg ? -1 : 1) * digits / 10^scale; ok is FALSE where float raises ValueError
PyFloat(t) ==
    LET u == Strip(t)
        signed == u # <<>> /\ u[1] \in {"-", "+"}
        body == IF signed THEN Tail(u) ELSE u
        dots == {i \in 1..Len(body) : body[i] = "."}
        ds == RemoveChars(body, {"."})
        ok == /\ Cardinality(dots) <= 1
              /\ ds # <<>>
              /\ \A i \in 1..Len(ds) : ds[i] \in Digit
    IN  IF ~ok THEN [ok |-> FALSE, neg |-> FALSE, digits |-> 0, scale |-> 0]
        ELSE [ok |-> TRUE,
              neg |-> signed /\ u[1] = "-",
              digits |-> DigitsValue(ds),
              scale |-> IF dots = {} THEN 0 ELSE Len(body) - SetMin(dots)]
FloatZero == [neg |-> FALSE, digits |-> 0, scale |-> 0]
\* f >= 0 on such a float (-0.0 >= 0 holds)
FloatNonNeg(f) == ~f.neg \/ f.digits = 0

(***************************************************************************)
(* parse_text                                                              *)
(***************************************************************************)
USDT == <<"U", "S", "D", "T">>
DeepBacktesting ==
    <<"D", "e", "e", "p", " ", "B", "a", "c", "k", "t", "e", "s", "t", "i", "n", "g">>
UnknownStrategy ==
    <<"U", "n", "k", "n", "o", "w", "n", " ", "S", "t", "r", "a", "t", "e", "g", "y">>
EmptyPeriod == [start_date |-> <<>>, end_date |-> <<>>]

\* lines = [line.strip() for line in text.splitlines() if line.strip()]
Lines(text) ==
    LET raw == SplitLines(text)
    IN  SelectSeq([i \in 1..Len(raw) |-> Strip(raw[i])], LAMBDA l : l # <<>>)

\* re.sub(r"[(c))@]+$", "", s)
StripTrailingGlyphs(s) == RStrip(s, {Copyright, ")", "@"})

\* 1) strategy name
StrategyName(lines) ==
    LET hits == {i \in 1..Len(lines) : Contains(lines[i], DeepBacktesting)}
    IN  IF hits = {} THEN UnknownStrategy
        ELSE LET line == lines[SetMin(hits)]
                 left_part == Strip(SubSeq(line, 1, Find(line, DeepBacktesting) - 1))
             IN  Strip(StripTrailingGlyphs(left_part))

\* (\d{4}-\d{2}-\d{2})\s*[-<en dash><em dash>]+\s*(\d{4}-\d{2}-\d{2})
IsoDate ==
    One(Digit) \o One(Digit) \o One(Digit) \o One(Digit) \o One({"-"})
    \o One(Digit) \o One(Digit) \o One({"-"}) \o One(Digit) \o One(Digit)
period_pattern ==
    Group(1, IsoDate) \o Star(Space) \o Plus({"-", EnDash, EmDash}) \o Star(Space)
    \o Group(2, IsoDate)

\* 2) test period
TestPeriod(lines) ==
    LET hits == {i \in 1..Len(lines) : ReSearch(period_pattern, lines[i]) # <<>>}
    IN  IF hits = {} THEN EmptyPeriod
        ELSE LET line == lines[SetMin(hits)]
                 m == ReSearch(period_pattern, line)
             IN  [start_date |-> MatchGroup(period_pattern, line, m, 1),
                  end_date |-> MatchGroup(period_pattern, line, m, 2)]

\* "USDT" in line and "%" in line and re.search(r'\d', line)
Qualifies(line) ==
    /\ Contains(line, USDT)
    /\ \E i \in 1..Len(line) : line[i] = "%"
    /\ \E i \in 1..Len(line) : line[i] \in Digit

\* faulty variant of CandidateLine: the scan runs from the top
CandidateLine_TopDown(lines) ==
    LET hits == {i \in 1..Len(lines) : Qualifies(lines[i])}
    IN  IF hits = {} THEN NoLine ELSE lines[SetMin(hits)]

\* 3) the candidate numeric data line, scanning from the bottom
CandidateLine(lines) ==
    LET hits == {i \in 1..Len(lines) : Qualifies(lines[i])}
    IN  IF hits = {} THEN NoLine ELSE lines[SetMax(hits)]

\* clean_line
CleanLine(line) ==
    Strip(ReplaceChar(RemoveChars(line, {"@", "=", LQuote, RQuote}), EmDash, "-"))

\* data_pattern
Amount == Opt({"-"}) \o Plus(Digit \cup {",", "."})
Decimal == Opt({"-"}) \o Plus(Digit \cup {"."})
Percent == Decimal \o One({"%"})
data_pattern ==
    Star(Space) \o Group(1, Amount) \o Star(Space) \o Lit(USDT) \o Star(Space)
    \o Group(2, Percent) \o Opt({"."}) \o Plus(Space)
    \o Group(3, Amount) \o Plus(Space) \o Group(4, Percent) \o Opt({"."}) \o Plus(Space)
    \o Group(5, Decimal) \o Plus(Space)
    \o Group(6, Amount) \o Star(Space) \o Lit(USDT) \o Star(Space)
    \o Group(7, Percent) \o Opt({"."}) \o Plus(Space)
    \o Group(8, Amount) \o Star(Space) \o Lit(USDT) \o Star(Space)
    \o Group(9, Percent) \o Opt({"."}) \o Plus(Space) \o Group(10, Plus(Digit))

\* faulty variant of SignCorrect: the percentage's own sign is not looked at
SignCorrect_Always(net_profit_usdt_str, net_profit_pct_str) ==
    IF net_profit_usdt_str[1] = "-"
    THEN <<"-">> \o net_profit_pct_str
    ELSE net_profit_pct_str

\* the sign fix of the net profit percentage
SignCorrect(net_profit_usdt_str, net_profit_pct_str) ==
    IF net_profit_usdt_str[1] = "-" /\ net_profit_pct_str[1] # "-"
    THEN <<"-">> \o net_profit_pct_str
    ELSE net_profit_pct_str

\* faulty variant of IntOrZero: the commas are kept
IntOrZero_KeepCommas(tok) ==
    LET r == PyInt(tok) IN IF r.ok THEN r.val ELSE 0

\* try: int(tok.replace(",", "")) except ValueError: 0
IntOrZero(tok) ==
    LET r == PyInt(RemoveChars(tok, {","})) IN IF r.ok THEN r.val ELSE 0

\* try: float(tok) except ValueError: 0.0
FloatOrZero(tok) ==
    LET r == PyFloat(tok)
    IN  IF r.ok THEN [neg |-> r.neg, digits |-> r.digits, scale |-> r.scale] ELSE FloatZero

\* try: int(tok) except ValueError: 0
BarsOrZero(tok) ==
    LET r == PyInt(tok) IN IF r.ok THEN r.val ELSE 0

\* the dict built from a match of data_pattern on clean_line
MatchedData(name, period, clean_line, m) ==
    LET g(n) == MatchGroup(data_pattern, clean_line, m, n)
    IN  [strategy_name |-> name,
         test_period |-> period,
         net_profit |-> SignCorrect(Strip(g(1)), Strip(g(2))),
         total_closed_trades |-> IntOrZero(g(3)),
         percent_profitable |-> Strip(g(4)),
         profit_factor |-> FloatOrZero(g(5)),
         max_drawdown |-> Strip(g(7)),
         avg_trade |-> Strip(g(9)),
         avg_bars_in_trade |-> BarsOrZero(g(10))]

\* faulty variant of parse_text: the pattern is applied to the line as read
parse_text_NoClean(text) ==
    LET lines == Lines(text)
        cand == CandidateLine(lines)
    IN  IF cand = NoLine THEN EmptyDict
        ELSE LET m == ReMatch(data_pattern, cand)
             IN  IF m # <<>>
                 THEN MatchedData(StrategyName(lines), TestPeriod(lines), cand, m)
                 ELSE EmptyDict

parse_text(text) ==
    LET lines == Lines(text)
        cand == CandidateLine(lines)
    IN  IF cand = NoLine THEN EmptyDict
        ELSE LET clean_line == CleanLine(cand)
                 m == ReMatch(data_pattern, clean_line)
             IN  IF m # <<>>
                 THEN MatchedData(StrategyName(lines), TestPeriod(lines), clean_line, m)
                 ELSE EmptyDict

(***************************************************************************)
(* Inputs: OCR lines.                                                      *)
(***************************************************************************)
\* a header line naming the strategy, with a stray glyph
HeaderLine ==
    <<"R", "S", "I", "@", " ", "D", "e", "e", "p", " ", "B", "a", "c", "k", "t", "e", "s",
      "t", "i", "n", "g">>
\* another strategy, the test period on the same line, indented
HeaderPeriodLine ==
    <<" ", " ", "M", "A", Copyright, ")", " ", "D", "e", "e", "p", " ", "B", "a", "c", "k",
      "t", "e", "s", "t", "i", "n", "g", " ", "2", "0", "2", "4", "-", "0", "1", "-", "0",
      "1", " ", EmDash, " ", "2", "0", "2", "5", "-", "0", "1", "-", "0", "1">>
\* a test period with an ASCII hyphen
PeriodLine ==
    <<"2", "0", "2", "3", "-", "0", "5", "-", "0", "1", "-", "2", "0", "2", "3", "-", "0",
      "6", "-", "0", "1">>
\* the numeric summary line of a report
SummaryLine ==
    <<"-", "4", "4", ",", "9", "9", "3", ".", "0", "0", " ", "U", "S", "D", "T", " ", "-",
      "4", "4", ".", "9", "9", "%", " ", "2", ",", "4", "9", "8", " ", "4", "9", ".", "4",
      "0", "%", " ", "0", ".", "8", "9", "2", " ", "6", "1", ",", "5", "1", "4", ".", "6",
      "3", " ", "U", "S", "D", "T", " ", "5", "8", ".", "1", "0", "%", " ", "-", "1", "8",
      ".", "0", "1", " ", "U", "S", "D", "T", " ", "0", ".", "0", "4", "%", " ", "1", "5">>
\* a summary line with OCR noise and the sign lost on the percentage
NoisySummaryLine ==
    <<"@", " ", EmDash, "8", ",", "4", "3", "1", ".", "4", "5", " ", "U", "S", "D", "T",
      " ", "8", ".", "4", "3", "%", ".", " ", "1", "2", " ", "5", "0", "%", " ", "1", ".",
      "5", " ", " ", "=", "1", " ", "U", "S", "D", "T", " ", "2", "%", " ", LQuote, "3",
      " ", "U", "S", "D", "T", " ", "4", "%", " ", "7", " ">>
\* a summary line with a minus sign read on the trade count and the profit factor
NegativeSummaryLine ==
    <<"5", " ", "U", "S", "D", "T", " ", "5", "%", " ", "-", "3", " ", "4", "0", "%", " ",
      "-", "0", ".", "5", " ", "1", " ", "U", "S", "D", "T", " ", "2", "%", " ", "3", " ",
      "U", "S", "D", "T", " ", "4", "%", " ", "7">>
\* a qualifying line that is no summary line
LabelLine ==
    <<"N", "e", "t", " ", "5", " ", "U", "S", "D", "T", " ", "%">>
\* currency marker and percent sign, no digit
MarkerLine ==
    <<"U", "S", "D", "T", " ", "%">>
\* white space only
BlankLine ==
    <<" ", "\t">>

LinePool ==
    {HeaderPeriodLine, SummaryLine, NoisySummaryLine, LabelLine, MarkerLine, BlankLine}

\* OCR texts of at most MaxLines lines of the pool
PoolTexts ==
    {JoinLines(ls) : ls \in UNION {[1..n -> LinePool] : n \in 0..MaxLines}}

\* all strings of 1..n characters of alphabet A
Tokens(A, n) == UNION {[1..k -> A] : k \in 1..n}

\* a summary line with the given fields 1, 2, 3 and 5
FieldLine(f1, f2, f3, f5) ==
    f1 \o <<" ">> \o USDT \o <<" ">> \o f2 \o <<" ">> \o f3
    \o <<" ", "4", "9", "%", " ">> \o f5
    \o <<" ", "1", " ", "U", "S", "D", "T", " ", "2", "%", " ", "3", "U", "S", "D", "T",
         " ", "4", "%", ".", " ", "7">>

\* summary lines varying the net profit amount and percentage, the trade
\* count, or the profit factor
FieldLines ==
    {FieldLine(f1, f2 \o <<"%">>, <<"1", "2">>, <<"1", ".", "5">>) :
        f1 \in Tokens({"-", EmDash, "1"}, MaxTokLen),
        f2 \in Tokens({"-", "8", "."}, MaxTokLen)}
    \cup {FieldLine(<<"1">>, <<"8", "%">>, f3, <<"1", ".", "5">>) :
        f3 \in Tokens({"-", "5", ",", "."}, MaxTokLen + 1)}
    \cup {FieldLine(<<"1">>, <<"8", "%">>, <<"1", "2">>, f5) :
        f5 \in Tokens({"-", "5", "."}, MaxTokLen + 1)}

FieldTexts == {JoinLines(<<HeaderLine, l>>) : l \in FieldLines}

\* what the OCR engine gives on the images of a batch
BatchTexts ==
    {JoinLines(<<HeaderLine, SummaryLine>>),
     JoinLines(<<HeaderPeriodLine, NoisySummaryLine>>),
     JoinLines(<<PeriodLine, NegativeSummaryLine>>),
     JoinLines(<<HeaderLine, LabelLine>>),
     MarkerLine}

\* every OCR text of the model
OcrTexts == PoolTexts \cup FieldTexts \cup BatchTexts

(***************************************************************************)
(* Calls of parse_text.                                                    *)
(***************************************************************************)
Idle ==
    /\ raw_dir = <<>> /\ images_dir = <<>> /\ data_dir = {}
    /\ raw_image_files = <<>> /\ original_images = <<>> /\ processed_files = <<>>
    /\ idx = 0 /\ removals = {} /\ results = <<>> /\ strategy_info = EmptyDict
    /\ first_image = TRUE /\ outcomes = <<>> /\ dialog = "none"

\* the calls of parse_text the model can make: for every text, the candidate
\* line found and the result
parse_text_calls ==
    {[text |-> t, candidate_line |-> CandidateLine(Lines(t)), parsed |-> parse_text(t)] :
        t \in OcrTexts}

ParseText ==
    /\ pc = "parse_text"
    /\ \E call \in parse_text_calls :
          /\ call.text = ocr_text
          /\ candidate_line' = call.candidate_line
          /\ parsed' = call.parsed
    /\ pc' = "collect"
    /\ UNCHANGED <<raw_dir, images_dir, data_dir, raw_image_files, original_images,
                   processed_files, idx, removals, results, strategy_info, first_image,
                   outcomes, dialog, image, cropped, processed, ocr_text>>

InitParse ==
    /\ Idle
    /\ pc = "parse_text"
    /\ image = NoImage /\ cropped = NoImage /\ processed = NoImage
    /\ ocr_text \in PoolTexts \cup FieldTexts
    /\ candidate_line = NoLine
    /\ parsed = EmptyDict

NextParse == ParseText

SpecParse == InitParse /\ [][NextParse]_vars

(***************************************************************************)
(* preprocess_image_from_array.  An image is its shape; cropped records    *)
(* the region image[y:y+h, x:x+w] takes.                                   *)
(***************************************************************************)
CropX == 69
CropY == 125
CropW == 1402
CropH == 235

\* ADJUSTMENTS['grayscale'], ADJUSTMENTS['thresholding']
Grayscale == FALSE
Thresholding == FALSE

\* faulty variant of TooSmall: "and" for "or"
TooSmall_And(img) == img.width < CropX + CropW /\ img.height < CropY + CropH

\* width < x + w or height < y + h
TooSmall(img) == img.width < CropX + CropW \/ img.height < CropY + CropH

\* image[y:y + h, x:x + w]: a slice is cut to the image, never an error
Slice(img) ==
    LET x0 == Min2(CropX, img.width)
        y0 == Min2(CropY, img.height)
    IN  [x0 |-> x0, y0 |-> y0,
         width |-> Min2(CropX + CropW, img.width) - x0,
         height |-> Min2(CropY + CropH, img.height) - y0,
         channels |-> img.channels]

\* adjust_image keeps the size; grayscale or thresholding leave one channel
adjust_image(region) ==
    [width |-> region.width, height |-> region.height,
     channels |-> IF Grayscale \/ Thresholding THEN 1 ELSE region.channels]

\* the cropped region, or NoImage when the function returns before cropping
Cropped(img) == IF TooSmall(img) THEN NoImage ELSE Slice(img)

preprocess_image_from_array(img) ==
    IF TooSmall(img) THEN NoImage ELSE adjust_image(Slice(img))

Preprocess ==
    /\ pc = "preprocess"
    /\ cropped' = Cropped(image)
    /\ processed' = preprocess_image_from_array(image)
    /\ pc' = "preprocessed"
    /\ UNCHANGED <<raw_dir, images_dir, data_dir, raw_image_files, original_images,
                   processed_files, idx, removals, results, strategy_info, first_image,
                   outcomes, dialog, image, ocr_text, candidate_line, parsed>>

\* image sizes around the crop limits, and a few far below them
Widths ==
    ((CropX + CropW - DimSlack)..(CropX + CropW + DimSlack)) \cup {1, CropX, CropX + 1, CropW}
Heights ==
    ((CropY + CropH - DimSlack)..(CropY + CropH + DimSlack)) \cup {1, CropY, CropY + 1, CropH}
ImageShapes == {[width |-> w, height |-> h, channels |-> 3] : w \in Widths, h \in Heights}

InitCrop ==
    /\ Idle
    /\ pc = "preprocess"
    /\ image \in ImageShapes
    /\ cropped = NoImage /\ processed = NoImage
    /\ ocr_text = <<>> /\ candidate_line = NoLine /\ parsed = EmptyDict

NextCrop == Preprocess

SpecCrop == InitCrop /\ [][NextCrop]_vars

(***************************************************************************)
(* Inputs of a batch.                                                      *)
(***************************************************************************)
\* RAW_IMAGES_FOLDER holds the first entries of this listing
DirNames ==
    <<<<"e", "t", "h", "U", "S", "D", "T", "_", "c", "h", "a", "r", "t", ".", "p", "n", "g">>,
      <<"n", "o", "t", "e", "s", ".", "t", "x", "t">>,
      <<"c", "h", "a", "r", "t", "7", ".", "J", "P", "G">>,
      <<"B", "T", "C", "U", "S", "D", "T", ".", "b", "m", "p">>,
      <<"x", ".", "j", "p", "e", "g">>>>
\* a processed image left by an earlier run
OldName == <<"o", "l", "d", ".", "p", "n", "g">>

\* what cv2.imread gives for a readable file: too small for the crop, large enough
BatchShapes ==
    {[width |-> CropX + CropW - 1, height |-> CropY + CropH, channels |-> 3],
     [width |-> CropX + CropW, height |-> CropY + CropH, channels |-> 3]}

(***************************************************************************)
(* extract_data                                                            *)
(***************************************************************************)
\* f.lower().endswith(('.png', '.jpg', '.jpeg', '.bmp'))
IsImageName(f) ==
    LET l == LowerStr(f)
    IN  \/ EndsWith(l, <<".", "p", "n", "g">>)
        \/ EndsWith(l, <<".", "j", "p", "g">>)
        \/ EndsWith(l, <<".", "j", "p", "e", "g">>)
        \/ EndsWith(l, <<".", "b", "m", "p">>)

\* os.path.splitext(filename)[0]
SplitExtRoot(f) ==
    LET dots == {i \in 1..Len(f) : f[i] = "."}
    IN  IF dots # {} /\ (\E j \in 1..(SetMax(dots) - 1) : f[j] # ".")
        THEN SubSeq(f, 1, SetMax(dots) - 1)
        ELSE f

\* ([A-Z0-9]+USDT), re.IGNORECASE
coin_pattern == Group(1, Plus(Upper \cup Lower \cup Digit) \o LitNoCase(USDT))

\* the coin/chart name of a file name
ChartName(filename) ==
    LET coin_match == ReSearch(coin_pattern, filename)
    IN  IF coin_match # <<>>
        THEN UpperStr(MatchGroup(coin_pattern, filename, coin_match, 1))
        ELSE SplitExtRoot(filename)

\* d.get(k, default)
Get(d, k, default) == IF k \in DOMAIN d THEN d[k] ELSE default

\* faulty variant of SkipChart: nothing is skipped
SkipChart_Never(p) == FALSE

\* not parsed or "net_profit" not in parsed or parsed["net_profit"] == ""
SkipChart(p) == p = EmptyDict \/ "net_profit" \notin DOMAIN p \/ p["net_profit"] = <<>>

\* the chart names of the file names of the model
chart_names == {[filename |-> DirNames[i], chart |-> ChartName(DirNames[i])] : i \in 1..Len(DirNames)}

\* result
Result(filename, p) ==
    [chart |-> (CHOOSE c \in chart_names : c.filename = filename).chart,
     net_profit |-> Get(p, "net_profit", <<>>),
     total_closed_trades |-> Get(p, "total_closed_trades", 0),
     percent_profitable |-> Get(p, "percent_profitable", <<>>),
     profit_factor |-> Get(p, "profit_factor", FloatZero),
     max_drawdown |-> Get(p, "max_drawdown", <<>>),
     avg_trade |-> Get(p, "avg_trade", <<>>),
     avg_bars_in_trade |-> Get(p, "avg_bars_in_trade", 0)]

\* faulty variant of StrategyInfo: first_image is not looked at
StrategyInfo_Overwrite(info, first, p) ==
    [strategy_name |-> Get(p, "strategy_name", UnknownStrategy),
     test_period |-> Get(p, "test_period", EmptyPeriod)]

\* strategy_info after an image that was not skipped
StrategyInfo(info, first, p) ==
    IF first
    THEN [strategy_name |-> Get(p, "strategy_name", UnknownStrategy),
          test_period |-> Get(p, "test_period", EmptyPeriod)]
    ELSE info

\* final_data
FinalData(info, res) ==
    [strategy_name |-> Get(info, "strategy_name", UnknownStrategy),
     test_period |-> Get(info, "test_period", EmptyPeriod),
     results |-> res]

\* output_filename
OutputFilename(strategy_name) ==
    LET safe == RemoveChars(strategy_name, {"\\", "/", "*", "?", ":", "\"", "<", ">", "|"})
        safe_strategy_name ==
            IF Strip(safe) = <<>>
            THEN <<"U", "n", "k", "n", "o", "w", "n", "_", "S", "t", "r", "a", "t", "e", "g", "y">>
            ELSE safe
    IN  ReplaceChar(safe_strategy_name, " ", "_") \o <<".", "j", "s", "o", "n">>

\* the batch is listed: the image files of RAW_IMAGES_FOLDER
ListRaw ==
    /\ pc = "extract_data"
    /\ raw_image_files' = SelectSeq(raw_dir, IsImageName)
    /\ IF raw_image_files' = <<>>
       THEN /\ dialog' = "Error: No images found in the raw images folder."
            /\ pc' = "done"
            /\ idx' = idx
       ELSE /\ dialog' = dialog
            /\ pc' = "read"
            /\ idx' = 1
    /\ UNCHANGED <<raw_dir, images_dir, data_dir, original_images, processed_files,
                   removals, results, strategy_info, first_image, outcomes, image,
                   cropped, processed, ocr_text, candidate_line, parsed>>

\* one turn of the loop reading the images into memory; cv2.imread gives an
\* image or None
ReadImage ==
    /\ pc = "read"
    /\ \E img \in {NoImage} \cup BatchShapes :
          original_images' =
              IF img # NoImage
              THEN Append(original_images, [filename |-> raw_image_files[idx], image |-> img])
              ELSE original_images
    /\ IF idx < Len(raw_image_files)
       THEN idx' = idx + 1 /\ pc' = pc
       ELSE idx' = 1 /\ pc' = "remove_raw"
    /\ UNCHANGED <<raw_dir, images_dir, data_dir, raw_image_files, processed_files,
                   removals, results, strategy_info, first_image, outcomes, dialog,
                   image, cropped, processed, ocr_text, candidate_line, parsed>>

\* faulty variant of RemovalTargets: only the files that were read
RemovalTargets_Decoded(files, images) == [i \in 1..Len(images) |-> images[i].filename]

\* the files the loop clearing the raw images folder runs over
RemovalTargets(files, images) == files

\* one turn of the loop clearing the raw images folder; os.remove may raise.
\* After the last turn IMAGES_FOLDER is listed.
RemoveRaw ==
    /\ pc = "remove_raw"
    /\ LET targets == RemovalTargets(raw_image_files, original_images)
       IN  IF idx <= Len(targets)
           THEN \E removed \in BOOLEAN :
                   /\ removals' = removals \cup {[file |-> targets[idx], removed |-> removed]}
                   /\ raw_dir' = IF removed
                                 THEN SelectSeq(raw_dir, LAMBDA f : f # targets[idx])
                                 ELSE raw_dir
           ELSE UNCHANGED <<removals, raw_dir>>
    /\ IF idx < Len(RemovalTargets(raw_image_files, original_images))
       THEN idx' = idx + 1 /\ pc' = pc /\ processed_files' = processed_files
       ELSE /\ idx' = 1
            /\ processed_files' = SelectSeq(images_dir, IsImageName)
            /\ pc' = IF processed_files' = <<>> THEN "loop" ELSE "clear_processed"
    /\ UNCHANGED <<images_dir, data_dir, raw_image_files, original_images, results,
                   strategy_info, first_image, outcomes, dialog, image, cropped,
                   processed, ocr_text, candidate_line, parsed>>

\* one turn of the loop clearing the processed images folder
ClearProcessed ==
    /\ pc = "clear_processed"
    /\ \E removed \in BOOLEAN :
          images_dir' = IF removed
                        THEN SelectSeq(images_dir, LAMBDA f : f # processed_files[idx])
                        ELSE images_dir
    /\ IF idx < Len(processed_files)
       THEN idx' = idx + 1 /\ pc' = pc
       ELSE idx' = 1 /\ pc' = "loop"
    /\ UNCHANGED <<raw_dir, data_dir, raw_image_files, original_images, processed_files,
                   removals, results, strategy_info, first_image, outcomes, dialog,
                   image, cropped, processed, ocr_text, candidate_line, parsed>>

\* the main loop takes its next image
TakeImage ==
    /\ pc = "loop"
    /\ idx <= Len(original_images)
    /\ image' = original_images[idx].image
    /\ pc' = "preprocess"
    /\ UNCHANGED <<raw_dir, images_dir, data_dir, raw_image_files, original_images,
                   processed_files, idx, removals, results, strategy_info, first_image,
                   outcomes, dialog, cropped, processed, ocr_text, candidate_line, parsed>>

\* faulty variant of Skip: return for continue
Skip_Return(why) ==
    /\ outcomes' = Append(outcomes, [filename |-> original_images[idx].filename,
                                     outcome |-> why, parsed |-> EmptyDict])
    /\ idx' = idx
    /\ pc' = "done"

\* continue: the image is skipped
Skip(why) ==
    /\ outcomes' = Append(outcomes, [filename |-> original_images[idx].filename,
                                     outcome |-> why, parsed |-> EmptyDict])
    /\ idx' = idx + 1
    /\ pc' = "loop"

\* processed is None or processed.size == 0
InvalidCrop(p) == p = NoImage \/ p.width * p.height * p.channels = 0

\* the crop is checked and written to IMAGES_FOLDER; cv2.imwrite may fail
SaveProcessed ==
    /\ pc = "preprocessed"
    /\ IF InvalidCrop(processed)
       THEN Skip("geometry") /\ images_dir' = images_dir
       ELSE \E written \in BOOLEAN :
               IF written
               THEN /\ images_dir' =
                         IF \E i \in 1..Len(images_dir) : images_dir[i] = original_images[idx].filename
                         THEN images_dir
                         ELSE Append(images_dir, original_images[idx].filename)
                    /\ pc' = "ocr"
                    /\ UNCHANGED <<outcomes, idx>>
               ELSE Skip("write_failed") /\ images_dir' = images_dir
    /\ UNCHANGED <<raw_dir, data_dir, raw_image_files, original_images, processed_files,
                   removals, results, strategy_info, first_image, dialog, image,
                   cropped, processed, ocr_text, candidate_line, parsed>>

\* extract_text_and_data_from_image: the OCR engine returns some text
Ocr ==
    /\ pc = "ocr"
    /\ ocr_text' \in BatchTexts
    /\ pc' = "parse_text"
    /\ UNCHANGED <<raw_dir, images_dir, data_dir, raw_image_files, original_images,
                   processed_files, idx, removals, results, strategy_info, first_image,
                   outcomes, dialog, image, cropped, processed, candidate_line, parsed>>

\* ExtractionOutcome of a parse_text result
ExtractionOutcome(p) == IF p = EmptyDict THEN "Unparsed" ELSE "Parsed"

\* the parsed data is skipped or appended to results
Collect ==
    /\ pc = "collect"
    /\ IF SkipChart(parsed)
       THEN /\ Skip(ExtractionOutcome(parsed))
            /\ UNCHANGED <<strategy_info, first_image, results>>
       ELSE /\ strategy_info' = StrategyInfo(strategy_info, first_image, parsed)
            /\ first_image' = FALSE
            /\ results' = Append(results, Result(original_images[idx].filename, parsed))
            /\ outcomes' = Append(outcomes, [filename |-> original_images[idx].filename,
                                             outcome |-> ExtractionOutcome(parsed),
                                             parsed |-> parsed])
            /\ idx' = idx + 1
            /\ pc' = "loop"
    /\ UNCHANGED <<raw_dir, images_dir, data_dir, raw_image_files, original_images,
                   processed_files, removals, dialog, image, cropped, processed,
                   ocr_text, candidate_line, parsed>>

\* after the loop final_data is written to DATA_FOLDER; the write may raise
WriteJson ==
    /\ pc = "loop"
    /\ idx > Len(original_images)
    /\ LET final_data == FinalData(strategy_info, results)
       IN  \E written \in BOOLEAN :
              IF written
              THEN /\ data_dir' = {[name |-> OutputFilename(final_data.strategy_name),
                                    data |-> final_data]}
                   /\ dialog' = "Success: Data extraction complete."
              ELSE /\ data_dir' = data_dir
                   /\ dialog' = "Error: Failed to write JSON file"
    /\ pc' = "done"
    /\ UNCHANGED <<raw_dir, images_dir, raw_image_files, original_images, processed_files,
                   idx, removals, results, strategy_info, first_image, outcomes, image,
                   cropped, processed, ocr_text, candidate_line, parsed>>

Init ==
    /\ pc = "extract_data"
    /\ raw_dir \in {SubSeq(DirNames, 1, n) : n \in 0..MaxFiles}
    /\ images_dir \in {<<>>, <<OldName>>}
    /\ data_dir = {}
    /\ raw_image_files = <<>> /\ original_images = <<>> /\ processed_files = <<>>
    /\ idx = 0 /\ removals = {} /\ results = <<>> /\ strategy_info = EmptyDict
    /\ first_image = TRUE /\ outcomes = <<>> /\ dialog = "none"
    /\ image = NoImage /\ cropped = NoImage /\ processed = NoImage
    /\ ocr_text = <<>> /\ candidate_line = NoLine /\ parsed = EmptyDict

Next ==
    \/ ListRaw
    \/ ReadImage
    \/ RemoveRaw
    \/ ClearProcessed
    \/ TakeImage
    \/ Preprocess
    \/ SaveProcessed
    \/ Ocr
    \/ ParseText
    \/ Collect
    \/ WriteJson

Spec == Init /\ [][Next]_vars

\* extract_data runs to its end: a button callback, nothing waits or blocks
FairSpec == Spec /\ WF_vars(Next)

(***************************************************************************)
(* Properties.                                                             *)
(***************************************************************************)
\* the fields of the match of data_pattern on a cleaned line (a match exists)
FieldsOf(line) ==
    LET cl == CleanLine(line)
        m == ReMatch(data_pattern, cl)
    IN  [n \in 1..10 |-> MatchGroup(data_pattern, cl, m, n)]

\* the outcomes of the images whose extraction outcome was Parsed
ParsedOutcomes == SelectSeq(outcomes, LAMBDA o : o.outcome = "Parsed")

\* every listed raw image file has had its os.remove call
AllRemovalsAttempted ==
    \A i \in 1..Len(raw_image_files) : \E r \in removals : r.file = raw_image_files[i]

\* C1: preprocess_image_from_array returns None for every image narrower than
\* 1471 or shorter than 360, having cropped nothing; for every other image the
\* region cropped is the 1402x235 one at offset (69, 125), and the adjusted
\* image has that size.
C1_CropOrOutOfBounds ==
    pc = "preprocessed" =>
        IF image.width < 1471 \/ image.height < 360
        THEN processed = NoImage /\ cropped = NoImage
        ELSE /\ cropped = [x0 |-> 69, y0 |-> 125, width |-> 1402, height |-> 235,
                           channels |-> image.channels]
             /\ processed # NoImage
             /\ processed.width = 1402
             /\ processed.height = 235

\* C1 witness: an image one column too narrow and tall enough was refused.
C1_Witness ==
    /\ pc = "preprocessed"
    /\ image.width = 1470
    /\ image.height >= 360
    /\ processed = NoImage

\* C2: at every point of a batch run, results holds exactly one entry per
\* image processed so far whose extraction outcome was Parsed, in order, each
\* carrying the fields parse_text returned for that image; an image whose
\* outcome is Unparsed adds none.
C2_OnlyParsedContribute ==
    /\ Len(results) = Len(ParsedOutcomes)
    /\ \A i \in 1..Len(results) :
          LET o == ParsedOutcomes[i]
          IN  /\ results[i].chart = ChartName(o.filename)
              /\ results[i].net_profit = o.parsed.net_profit
              /\ results[i].net_profit # <<>>
              /\ results[i].total_closed_trades = o.parsed.total_closed_trades
              /\ results[i].percent_profitable = o.parsed.percent_profitable
              /\ results[i].profit_factor = o.parsed.profit_factor
              /\ results[i].max_drawdown = o.parsed.max_drawdown
              /\ results[i].avg_trade = o.parsed.avg_trade
              /\ results[i].avg_bars_in_trade = o.parsed.avg_bars_in_trade

\* C2 witness: the run ended with an Unparsed image and a Parsed one, and one
\* entry in results.
C2_Witness ==
    /\ pc = "done"
    /\ Len(outcomes) = 2
    /\ outcomes[1].outcome = "Unparsed"
    /\ outcomes[2].outcome = "Parsed"
    /\ Len(results) = 1

\* C3: once a batch is listed, extract_data reaches its end with every image
\* read into memory taken by the main loop, whatever failed on the way, and
\* with the write of the aggregate attempted.
C3_BatchReachesWrite ==
    (pc = "read") ~>
        (/\ pc = "done"
         /\ Len(outcomes) = Len(original_images)
         /\ dialog \in {"Success: Data extraction complete.",
                        "Error: Failed to write JSON file"})

\* C3 witness: a run ended with the aggregate written, its first image having
\* failed the crop and its second having been taken and Parsed.
C3_Witness ==
    /\ pc = "done"
    /\ Len(outcomes) = 2
    /\ outcomes[1].outcome = "geometry"
    /\ outcomes[2].outcome = "Parsed"
    /\ dialog = "Success: Data extraction complete."

\* C4 as stated: parse_text returns {} if and only if no line of the text
\* holds "USDT", a percent sign and a digit together.
C4_UnparsedIffNoAnchor ==
    pc = "collect" =>
        ((parsed = EmptyDict) <=>
            ~(\E i \in 1..Len(Lines(ocr_text)) : Qualifies(Lines(ocr_text)[i])))

\* C4 amended: parse_text returns {} if and only if no line of the text holds
\* "USDT", a percent sign and a digit together, or the lowest such line, once
\* cleaned, does not match the composite pattern.
C4_UnparsedIffNoAnchorOrNoMatch ==
    pc = "collect" =>
        LET ls == Lines(ocr_text)
            q == {i \in 1..Len(ls) : Qualifies(ls[i])}
        IN  (parsed = EmptyDict) <=>
                (q = {} \/ ReMatch(data_pattern, CleanLine(ls[SetMax(q)])) = <<>>)

\* C4 witness: a text with a qualifying line that is no summary line was
\* Unparsed.
C4_Witness ==
    /\ pc = "collect"
    /\ candidate_line # NoLine
    /\ parsed = EmptyDict

\* C5: on a matched summary line, net_profit is field 2 with one minus sign
\* put before it when field 1 starts with a minus sign and field 2 does not,
\* and field 2 as matched otherwise; when field 1 starts with a minus sign,
\* net_profit starts with exactly one.
C5_SignCorrection ==
    (pc = "collect" /\ parsed # EmptyDict) =>
        LET f == FieldsOf(candidate_line)
        IN  /\ (f[1][1] = "-" /\ f[2][1] # "-") => parsed.net_profit = <<"-">> \o f[2]
            /\ ~(f[1][1] = "-" /\ f[2][1] # "-") => parsed.net_profit = f[2]
            /\ f[1][1] = "-" => (parsed.net_profit[1] = "-" /\ parsed.net_profit[2] # "-")

\* C5 witness: a line read with a dash before the amount and none before the
\* percentage was given its minus sign.
C5_Witness ==
    /\ pc = "collect"
    /\ parsed # EmptyDict
    /\ FieldsOf(candidate_line)[1][1] = "-"
    /\ FieldsOf(candidate_line)[2][1] # "-"
    /\ parsed.net_profit = <<"-">> \o FieldsOf(candidate_line)[2]

\* C6: on every line that matches the composite pattern the outcome is
\* Parsed; a numeric field whose token does not convert is zero, one whose
\* token converts has its value, and the percentage fields are as matched.
C6_ZeroDefaultPerField ==
    pc = "collect" =>
        /\ (candidate_line # NoLine /\ ReMatch(data_pattern, CleanLine(candidate_line)) # <<>>)
              => parsed # EmptyDict
        /\ parsed # EmptyDict =>
              LET f == FieldsOf(candidate_line)
                  trades == PyInt(RemoveChars(f[3], {","}))
                  factor == PyFloat(f[5])
                  bars == PyInt(f[10])
              IN  /\ parsed.total_closed_trades = IF trades.ok THEN trades.val ELSE 0
                  /\ parsed.profit_factor =
                        IF factor.ok
                        THEN [neg |-> factor.neg, digits |-> factor.digits, scale |-> factor.scale]
                        ELSE FloatZero
                  /\ parsed.avg_bars_in_trade = IF bars.ok THEN bars.val ELSE 0
                  /\ parsed.net_profit \in {f[2], <<"-">> \o f[2]}
                  /\ parsed.percent_profitable = f[4]
                  /\ parsed.max_drawdown = f[7]
                  /\ parsed.avg_trade = f[9]

\* C6 witness: a trade count that does not convert was set to zero, the profit
\* factor beside it keeping its value.
C6_Witness ==
    /\ pc = "collect"
    /\ parsed # EmptyDict
    /\ ~PyInt(RemoveChars(FieldsOf(candidate_line)[3], {","})).ok
    /\ parsed.total_closed_trades = 0
    /\ parsed.profit_factor = [neg |-> FALSE, digits |-> 15, scale |-> 1]

\* C7: every entry of results has total_closed_trades >= 0, profit_factor >= 0
\* and avg_bars_in_trade >= 0.
C7_NonNegativeNumbers ==
    \A i \in 1..Len(results) :
        /\ results[i].total_closed_trades >= 0
        /\ FloatNonNeg(results[i].profit_factor)
        /\ results[i].avg_bars_in_trade >= 0

\* C8: when some line of the text holds "USDT", a percent sign and a digit,
\* the candidate is the last such line in OCR order, and the result comes
\* from that line alone: {} when it does not match, its fields when it does.
C8_BottomMostCandidate ==
    pc = "collect" =>
        LET ls == Lines(ocr_text)
            q == {i \in 1..Len(ls) :
                     /\ Contains(ls[i], USDT)
                     /\ \E j \in 1..Len(ls[i]) : ls[i][j] = "%"
                     /\ \E j \in 1..Len(ls[i]) : ls[i][j] \in Digit}
        IN  q # {} =>
                LET last == ls[SetMax(q)]
                IN  /\ candidate_line = last
                    /\ (parsed = EmptyDict) <=> (ReMatch(data_pattern, CleanLine(last)) = <<>>)
                    /\ parsed # EmptyDict =>
                          LET f == FieldsOf(last)
                          IN  /\ parsed.percent_profitable = f[4]
                              /\ parsed.max_drawdown = f[7]
                              /\ parsed.avg_trade = f[9]

\* C8 witness: of two different qualifying lines the lower one was taken, and
\* the text was Unparsed although the upper one is a summary line.
C8_Witness ==
    /\ pc = "collect"
    /\ LET ls == Lines(ocr_text)
           q == {i \in 1..Len(ls) : Qualifies(ls[i])}
       IN  /\ Cardinality(q) >= 2
           /\ ls[SetMin(q)] # ls[SetMax(q)]
           /\ candidate_line = ls[SetMax(q)]
           /\ ReMatch(data_pattern, CleanLine(ls[SetMin(q)])) # <<>>
    /\ parsed = EmptyDict

\* C9: strategy_info is empty until an image is Parsed and from then on holds
\* the strategy name and test period of the first Parsed image; the record
\* written carries them, or "Unknown Strategy", empty dates and no results
\* when no image was Parsed.
C9_StrategyFromFirstParsed ==
    LET first == IF ParsedOutcomes = <<>> THEN EmptyDict ELSE ParsedOutcomes[1].parsed
    IN  /\ strategy_info =
              IF ParsedOutcomes = <<>> THEN EmptyDict
              ELSE [strategy_name |-> first.strategy_name, test_period |-> first.test_period]
        /\ \A file \in data_dir :
              IF ParsedOutcomes = <<>>
              THEN /\ file.data.strategy_name = UnknownStrategy
                   /\ file.data.test_period = [start_date |-> <<>>, end_date |-> <<>>]
                   /\ file.data.results = <<>>
              ELSE /\ file.data.strategy_name = first.strategy_name
                   /\ file.data.test_period = first.test_period

\* C9 witness: two images were Parsed with different strategy names and the
\* record written carries the first.
C9_Witness ==
    /\ pc = "done"
    /\ Len(ParsedOutcomes) = 2
    /\ ParsedOutcomes[1].parsed.strategy_name # ParsedOutcomes[2].parsed.strategy_name
    /\ \E file \in data_dir : file.data.strategy_name = ParsedOutcomes[1].parsed.strategy_name

\* C10: as long as some listed raw image file has had no os.remove call, no
\* image has been cropped, read by OCR or parsed; and every file whose call
\* succeeded is gone from the raw images folder, whatever became of its image.
C10_RemovalBeforeProcessing ==
    /\ ~AllRemovalsAttempted =>
          /\ pc \in {"read", "remove_raw"}
          /\ outcomes = <<>> /\ results = <<>>
          /\ cropped = NoImage /\ processed = NoImage
          /\ ocr_text = <<>> /\ parsed = EmptyDict
    /\ pc \in {"clear_processed", "loop", "preprocess", "preprocessed", "ocr",
               "parse_text", "collect"} => AllRemovalsAttempted
    /\ \A r \in removals :
          r.removed => ~(\E i \in 1..Len(raw_dir) : raw_dir[i] = r.file)

\* C10 witness: the run ended with no result, an unreadable file and the file
\* of an Unparsed image both removed.
C10_Witness ==
    /\ pc = "done"
    /\ results = <<>>
    /\ \E o \in {outcomes[i] : i \in 1..Len(outcomes)} :
          /\ o.outcome = "Unparsed"
          /\ [file |-> o.filename, removed |-> TRUE] \in removals
    /\ \E r \in removals :
          /\ r.removed
          /\ \A i \in 1..Len(original_images) : original_images[i].filename # r.file

====
